---- MODULE Spec2Model ----
(***************************************************************************)
(* Model of the Slack draft webhook (src/slack-draft.js): the handler, its *)
(* helpers verifySlackSignature, parseDraftMessage, normalizeName, the     *)
(* teamNameToAbbrev table, and the Firebase store the handler reads and    *)
(* writes over HTTP.                                                       *)
(*                                                                         *)
(* JavaScript strings are TLA+ strings; TLC evaluates Len, SubSeq, Head,   *)
(* Tail and \o on them, so the string functions are computed character by  *)
(* character, as the code computes them.                                   *)
(***************************************************************************)
EXTENDS Integers, Sequences, FiniteSets, TLC

VARIABLES
  now,          \* the clock: Date.now() in seconds, and new Date()
  drafted,      \* the store's draftData/draftedPlayerIds, key -> JSON text
  lastUpdated,  \* the store's draftData/lastUpdated
  inv,          \* the handler invocations: position, locals, response
  arg,          \* the input of a helper function checked on its own
  result        \* what the helper returned for arg

vars == <<now, drafted, lastUpdated, inv, arg, result>>

\* ------------------------------------------------------------------------
\* JavaScript values.  Each value carries its type tag; the payload field
\* has a different name per type.
\* ------------------------------------------------------------------------
Undefined == [t |-> "undefined"]
Null == [t |-> "null"]
Str(s) == [t |-> "string", s |-> s]
Num(n) == [t |-> "number", n |-> n]
Arr(a) == [t |-> "array", a |-> a]
Obj(f) == [t |-> "object", f |-> f]
Fun(name) == [t |-> "function", name |-> name]

\* ToBoolean: what `!v`, `v && ...` and `v || ...` test.
Truthy(v) ==
  CASE v.t = "undefined" -> FALSE
    [] v.t = "null" -> FALSE
    [] v.t = "string" -> v.s # ""
    [] v.t = "number" -> v.n # 0
    [] OTHER -> TRUE

\* The names every object literal inherits from Object.prototype.
ObjectPrototypeKeys ==
  {"constructor", "toString", "valueOf", "hasOwnProperty", "isPrototypeOf",
   "propertyIsEnumerable", "toLocaleString", "__proto__"}

\* obj[key] on an object literal: an own property, else one inherited from
\* Object.prototype (a function, or for __proto__ the prototype object), else
\* undefined.
GetProperty(obj, key) ==
  IF key \in DOMAIN obj.f THEN obj.f[key]
  ELSE IF key = "__proto__" THEN Obj(<<>>)
  ELSE IF key \in ObjectPrototypeKeys THEN Fun(key)
  ELSE Undefined

\* ------------------------------------------------------------------------
\* Characters and strings.
\* ------------------------------------------------------------------------
UpperLetters == "ABCDEFGHIJKLMNOPQRSTUVWXYZ"
LowerLetters == "abcdefghijklmnopqrstuvwxyz"
DigitChars == "0123456789"

CharAt(s, i) == SubSeq(s, i, i)

Chars(s) == {SubSeq(s, i, i) : i \in 1..Len(s)}

UpperSet == Chars(UpperLetters)
LowerSet == Chars(LowerLetters)
DigitSet == Chars(DigitChars)

\* 1-based index of character c in s, 0 when absent.
IndexIn(c, s) ==
  IF c \in Chars(s) THEN CHOOSE i \in 1..Len(s) : SubSeq(s, i, i) = c
  ELSE 0

\* \s of a JavaScript regular expression and the characters trim() strips.
IsWhitespace(c) == c \in {" ", "\t", "\n", "\r", "\f"}

\* The characters `.` does not match.
IsLineTerminator(c) == c \in {"\n", "\r"}

IsDigit(c) == c \in DigitSet

IsLower(c) == c \in LowerSet

IsUpper(c) == c \in UpperSet

\* The lower-case letter at the place c has among the upper-case ones.
LowerAt(i, c) == IF i > 0 THEN SubSeq(LowerLetters, i, i) ELSE c

ToLowerChar(c) ==
  IF IsUpper(c) THEN LowerAt(IndexIn(c, UpperLetters), c) ELSE c

RECURSIVE ToLowerCase(_)
ToLowerCase(s) ==
  IF s = "" THEN "" ELSE ToLowerChar(Head(s)) \o ToLowerCase(Tail(s))

RECURSIVE TrimStart(_)
TrimStart(s) ==
  IF s # "" /\ IsWhitespace(Head(s)) THEN TrimStart(Tail(s)) ELSE s

RECURSIVE TrimEnd(_)
TrimEnd(s) ==
  IF s # "" /\ IsWhitespace(CharAt(s, Len(s)))
  THEN TrimEnd(SubSeq(s, 1, Len(s) - 1))
  ELSE s

\* String.prototype.trim
Trim(s) == TrimEnd(TrimStart(s))

\* What .replace(/[^a-z0-9\s]/g, '') leaves of one character.
KeptChar(c) == IF IsLower(c) \/ IsDigit(c) \/ IsWhitespace(c) THEN c ELSE ""

\* .replace(/[^a-z0-9\s]/g, '')
RECURSIVE RemoveOtherChars(_)
RemoveOtherChars(s) ==
  IF s = "" THEN ""
  ELSE KeptChar(Head(s)) \o RemoveOtherChars(Tail(s))

\* .replace(/\s+/g, ' ')
RECURSIVE CollapseWhitespace(_)
CollapseWhitespace(s) ==
  IF s = "" THEN ""
  ELSE IF IsWhitespace(Head(s))
       THEN " " \o CollapseWhitespace(TrimStart(s))
       ELSE Head(s) \o CollapseWhitespace(Tail(s))

\* normalizeName without its final trim().
normalizeName_noTrim(name) ==
  CollapseWhitespace(RemoveOtherChars(ToLowerCase(name)))

normalizeName(name) ==
  Trim(CollapseWhitespace(RemoveOtherChars(ToLowerCase(name))))

\* ------------------------------------------------------------------------
\* parseDraftMessage: text.match of
\*   /Round (\d+), Pick (\d+) \(#\d+ overall\): (.+) select ([A-Z]+(?:\/[A-Z]+)?) (.+)/i
\* Positions are 1-based; an "end" is the index of the last character
\* matched.  The engine tries the start positions from the left, and at each
\* start the alternatives of the greedy quantifiers, longest first.
\* ------------------------------------------------------------------------
NoMatch == [t |-> "null"]

\* The characters of lit from its k-th on stand in text from p on; the i
\* flag ignores letter case.
RECURSIVE LitFrom(_, _, _, _)
LitFrom(text, p, lit, k) ==
  \/ k > Len(lit)
  \/ /\ ToLowerChar(CharAt(text, p)) = ToLowerChar(CharAt(lit, k))
     /\ LitFrom(text, p + 1, lit, k + 1)

\* A literal of the pattern at position p.
LitAt(text, p, lit) ==
  /\ p >= 1
  /\ p + Len(lit) - 1 <= Len(text)
  /\ LitFrom(text, p, lit, 1)

\* End of the longest run of digits starting at p (p - 1 when there is none).
\* \d+ is greedy and a shorter run is followed by a digit, never by the
\* literal the pattern asks for next, so only the longest run can match.
RECURSIVE DigitsEnd(_, _)
DigitsEnd(text, p) ==
  IF p <= Len(text) /\ IsDigit(CharAt(text, p))
  THEN DigitsEnd(text, p + 1)
  ELSE p - 1

IsLetter(c) == IsUpper(c) \/ IsLower(c)

\* [A-Z]+ under the i flag matches letters of either case; as for the
\* digits, only the longest run can be followed by what the pattern asks.
RECURSIVE LettersEnd(_, _)
LettersEnd(text, p) ==
  IF p <= Len(text) /\ IsLetter(CharAt(text, p))
  THEN LettersEnd(text, p + 1)
  ELSE p - 1

\* End of the longest run of characters `.` matches starting at p.
RECURSIVE DotsEnd(_, _)
DotsEnd(text, p) ==
  IF p <= Len(text) /\ ~IsLineTerminator(CharAt(text, p))
  THEN DotsEnd(text, p + 1)
  ELSE p - 1

\* " (.+)" can match right after a position token that ends at e.
PlayerFollows(text, e) ==
  /\ e + 2 <= Len(text)
  /\ CharAt(text, e + 1) = " "
  /\ ~IsLineTerminator(CharAt(text, e + 2))

\* The position token whose first letters end at e1 and whose optional
\* second group, if there is one, ends at e2.
PositionEndOf(text, e1, e2) ==
  IF e2 >= e1 + 2 /\ PlayerFollows(text, e2) THEN e2
  ELSE IF PlayerFollows(text, e1) THEN e1
  ELSE 0

SecondGroupEnd(text, e1) ==
  IF e1 + 1 <= Len(text) /\ CharAt(text, e1 + 1) = "/"
  THEN LettersEnd(text, e1 + 2) ELSE 0

FirstGroupEnd(text, p, e1) ==
  IF e1 < p THEN 0 ELSE PositionEndOf(text, e1, SecondGroupEnd(text, e1))

\* End of ([A-Z]+(?:\/[A-Z]+)?) starting at p, given that a space and one
\* more character must follow it; 0 when the position token cannot match.
PositionEnd(text, p) == FirstGroupEnd(text, p, LettersEnd(text, p))

\* " select <position> <player>" right after a team name that ends at e.
TailMatches(text, e) ==
  /\ LitAt(text, e + 1, " select ")
  /\ PositionEnd(text, e + 9) > 0

\* The greedy first (.+), which starts at p: it first takes everything `.`
\* matches and gives back one character at a time; the team ends at the
\* first end e, from the longest down, after which the rest matches (0 when
\* there is none).
RECURSIVE TeamEndFrom(_, _, _)
TeamEndFrom(text, p, e) ==
  IF e < p THEN 0
  ELSE IF TailMatches(text, e) THEN e
  ELSE TeamEndFrom(text, p, e - 1)

TeamEnd(text, p) == TeamEndFrom(text, p, DotsEnd(text, p))

\* The match: the five groups.
MatchGroups(text, g1, g2, g3, p1, p2) ==
  [t |-> "match", g1 |-> g1, g2 |-> g2, g3 |-> g3,
   g4 |-> SubSeq(text, p1, p2),
   g5 |-> SubSeq(text, p2 + 2, DotsEnd(text, p2 + 2))]

\* "(.+) select ..." with the team from t1 to t2.
MatchTeam(text, g1, g2, t1, t2) ==
  IF t2 = 0 THEN NoMatch
  ELSE MatchGroups(text, g1, g2, SubSeq(text, t1, t2), t2 + 9,
                   PositionEnd(text, t2 + 9))

\* "\d+ overall): " with the digits from o1 to o2.
MatchOverall(text, g1, g2, o1, o2) ==
  IF o2 >= o1 /\ LitAt(text, o2 + 1, " overall): ")
  THEN MatchTeam(text, g1, g2, o2 + 12, TeamEnd(text, o2 + 12))
  ELSE NoMatch

\* "(\d+) (#" with the pick from k1 to k2.
MatchPick(text, g1, k1, k2) ==
  IF k2 >= k1 /\ LitAt(text, k2 + 1, " (#")
  THEN MatchOverall(text, g1, SubSeq(text, k1, k2), k2 + 4,
                    DigitsEnd(text, k2 + 4))
  ELSE NoMatch

\* "(\d+), Pick " with the round from r1 to r2.
MatchRound(text, r1, r2) ==
  IF r2 >= r1 /\ LitAt(text, r2 + 1, ", Pick ")
  THEN MatchPick(text, SubSeq(text, r1, r2), r2 + 8, DigitsEnd(text, r2 + 8))
  ELSE NoMatch

\* The match that starts at s, or NoMatch.
MatchAt(text, s) ==
  IF LitAt(text, s, "Round ")
  THEN MatchRound(text, s + 6, DigitsEnd(text, s + 6))
  ELSE NoMatch

\* text.match(regex): the match at the leftmost start that has one.
RECURSIVE MatchFrom(_, _)
FirstMatch(text, s, m) == IF m # NoMatch THEN m ELSE MatchFrom(text, s + 1)

MatchFrom(text, s) ==
  IF s > Len(text) THEN NoMatch ELSE FirstMatch(text, s, MatchAt(text, s))

RegexMatch(text) == MatchFrom(text, 1)

\* parseInt of a string of decimal digits.
RECURSIVE parseInt(_)
parseInt(d) ==
  IF d = "" THEN 0
  ELSE 10 * parseInt(SubSeq(d, 1, Len(d) - 1))
         + (IndexIn(CharAt(d, Len(d)), DigitChars) - 1)

\* Lines 61-71: the record made of a match.
DraftInfoOf(match) ==
  IF match = NoMatch THEN NoMatch
  ELSE [t |-> "draftInfo",
        round |-> parseInt(match.g1),
        pick |-> parseInt(match.g2),
        teamName |-> Trim(match.g3),
        position |-> Trim(match.g4),
        playerName |-> Trim(match.g5)]

parseDraftMessage(text) == DraftInfoOf(RegexMatch(text))

\* ------------------------------------------------------------------------
\* Team name to abbreviation mapping.
\* ------------------------------------------------------------------------
TeamTable ==
  "Adelaide Bite" :> Str("ADE") @@
  "Amsterdam Dragons" :> Str("AMS") @@
  "California Surfers" :> Str("CAL") @@
  "Cleveland Spiders" :> Str("CLE") @@
  "Curacao Blue Wave" :> Str("SPA") @@
  "Denver Blucifers" :> Str("DEN") @@
  "Dubai Bedouins" :> Str("DUB") @@
  "Galapagos Shellbacks" :> Str("GAL") @@
  "Havana Sugar Kings" :> Str("HAV") @@
  "Honolulu Honu" :> Str("HON") @@
  "Lappland Boazu" :> Str("LAP") @@
  "London Red Coats" :> Str("LDN") @@
  "Longbow Hunters" :> Str("LON") @@
  "North Korea Outlaws" :> Str("NKO") @@
  "Rome Centurions" :> Str("RME") @@
  "Sao Paulo Black Mambas" :> Str("SPA") @@
  "Sint Maarten Sun Chasers" :> Str("SMT") @@
  "St. Lucia Mermen" :> Str("STU") @@
  "Tokyo Tigers" :> Str("TOK") @@
  "Toronto Huskies" :> Str("TOR") @@
  "Vancouver Homewreckers" :> Str("VAN")

\* The table is an object literal, so it also has Object.prototype's names.
teamNameToAbbrev == Obj(TeamTable)

\* teamNameToAbbrev[draftInfo.teamName]
LookupTeam(teamName) == GetProperty(teamNameToAbbrev, teamName)

\* ------------------------------------------------------------------------
\* JSON.  A JSON text is kept as the value it denotes; a text that is not
\* JSON is kept as its characters.
\* ------------------------------------------------------------------------
JsonText(v) == [t |-> "jsontext", v |-> v]
RawText(s) == [t |-> "rawtext", s |-> s]

Throw(error) == [t |-> "throw", error |-> error]

\* JSON.parse
JSONparse(body) ==
  IF body.t = "jsontext" THEN body.v ELSE Throw("SyntaxError")

\* JSON.stringify of an object whose property values are primitives: a
\* property whose value is undefined or a function is left out.
JSONstringify(obj) ==
  LET keep == {k \in DOMAIN obj.f : obj.f[k].t \notin {"undefined", "function"}}
  IN JsonText(Obj([k \in keep |-> obj.f[k]]))

\* v.key for a value v that is neither null nor undefined.
Get(v, key) == IF v.t = "object" THEN GetProperty(v, key) ELSE Undefined

\* ------------------------------------------------------------------------
\* verifySlackSignature
\* ------------------------------------------------------------------------
\* process.env.SLACK_SIGNING_SECRET
signingSecret == "signing-secret"

\* 'v0=' + createHmac('sha256', key).update(sigBasestring).digest('hex'):
\* 3 + 64 characters.  HMAC-SHA256 is taken as collision free, so the string
\* is identified by the key and the base string's two variable parts.
SignatureLength == 67

Sign(key, timestamp, body) ==
  [t |-> "hmac", key |-> key, timestamp |-> timestamp, body |-> body]

\* Buffer.from(v).length
ByteLength(v) == IF v.t = "hmac" THEN SignatureLength ELSE Len(v.s)

\* now - timestamp, with the header string converted to a number; NaN for a
\* string that is no decimal number.
NaN == [t |-> "NaN"]

ToNumber(str) ==
  IF str # "" /\ \A i \in 1..Len(str) : IsDigit(CharAt(str, i))
  THEN Num(parseInt(str)) ELSE NaN

Abs(n) == IF n < 0 THEN -n ELSE n

\* crypto.timingSafeEqual: throws when the byte lengths differ.
timingSafeEqual(a, b) ==
  IF ByteLength(a) # ByteLength(b) THEN Throw("RangeError")
  ELSE [t |-> "boolean", b |-> (a = b)]

ReplayWindow == 300

False == [t |-> "boolean", b |-> FALSE]

\* Math.abs(now - timestamp) > 300, false for NaN.
OutsideWindow(nowSec, ts) == ts # NaN /\ Abs(nowSec - ts.n) > ReplayWindow

\* The window check left out.
CheckSignature_noWindow(signature, timestamp, body, secret, nowSec) ==
  IF ~Truthy(signature) \/ ~Truthy(timestamp) THEN False
  ELSE timingSafeEqual(Sign(secret, timestamp.s, body), signature)

\* Lines 33-52, with the headers read.
CheckSignature(signature, timestamp, body, secret, nowSec) ==
  IF ~Truthy(signature) \/ ~Truthy(timestamp) THEN False
  ELSE IF OutsideWindow(nowSec, ToNumber(timestamp.s)) THEN False
  ELSE timingSafeEqual(Sign(secret, timestamp.s, body), signature)

verifySlackSignature(event, secret, nowSec) ==
  CheckSignature(event.headers.sig, event.headers.ts, event.body, secret,
                 nowSec)

\* ------------------------------------------------------------------------
\* The handler.  An invocation runs from one await to the next in one step.
\* ------------------------------------------------------------------------
Response(statusCode, body) ==
  [t |-> "response", statusCode |-> statusCode, body |-> body]

NoRequests == <<>>

Idle ==
  [pc |-> "idle", event |-> Undefined, receivedAt |-> 0,
   draftInfo |-> Undefined, teamAbbrev |-> Undefined,
   batters |-> Undefined, pitchers |-> Undefined,
   foundPlayer |-> Null, playerType |-> Null,
   draftedData |-> Undefined, lastUpdatedBody |-> Undefined,
   response |-> Undefined, requests |-> NoRequests,
   responses |-> NoRequests]

\* return r, or an exception leaving the handler when r is a Throw.
Return(st, r) == [st EXCEPT !.pc = "done", !.response = r]

\* A call of fetch: the request is on its way to the store.
Fetch(st, method, url, body, pc) ==
  [st EXCEPT !.pc = pc,
             !.requests = Append(@, [method |-> method, url |-> url,
                                     body |-> body])]

BattersUrl == "/draftData/batters.json"
PitchersUrl == "/draftData/pitchers.json"
DraftedUrl(id) == "/draftData/draftedPlayerIds/" \o id \o ".json"
LastUpdatedUrl == "/draftData/lastUpdated.json"

\* Lines 135-144: the team abbreviation, then the first fetch.
HandleTeam(st, teamAbbrev) ==
  IF ~Truthy(teamAbbrev)
  THEN Return(st, Response(200, Str("Unknown team")))
  ELSE Fetch([st EXCEPT !.teamAbbrev = teamAbbrev],
             "GET", BattersUrl, Undefined, "fetchBatters")

\* Lines 127-136.
HandleDraftInfo(st, draftInfo) ==
  IF draftInfo = NoMatch
  THEN Return([st EXCEPT !.draftInfo = draftInfo],
              Response(200, Str("Not a draft message")))
  ELSE HandleTeam([st EXCEPT !.draftInfo = draftInfo],
                  LookupTeam(draftInfo.teamName))

\* Lines 123-127: text.match throws when evt.text is no string.
HandleText(st, text) ==
  IF text.t # "string" THEN Return(st, Throw("TypeError"))
  ELSE HandleDraftInfo(st, parseDraftMessage(text.s))

\* Lines 116-123: evt.type throws when payload.event is missing or null.
HandleEventCallback(st, evt) ==
  IF evt.t \in {"null", "undefined"} THEN Return(st, Throw("TypeError"))
  ELSE IF \/ Get(evt, "type") # Str("message")
          \/ Truthy(Get(evt, "subtype"))
          \/ Truthy(Get(evt, "bot_id"))
  THEN Return(st, Response(200, Str("Ignored")))
  ELSE HandleText(st, Get(evt, "text"))

\* Lines 98-226: the parsed payload; payload.type throws when it is null.
HandlePayload(st, payload) ==
  IF payload.t = "throw" THEN Return(st, Response(400, Str("Invalid JSON")))
  ELSE IF payload.t \in {"null", "undefined"}
  THEN Return(st, Throw("TypeError"))
  ELSE IF Get(payload, "type") = Str("url_verification")
  THEN Return(st, Response(200,
         JSONstringify(Obj("challenge" :> Get(payload, "challenge")))))
  ELSE IF Get(payload, "type") = Str("event_callback")
  THEN HandleEventCallback(st, Get(payload, "event"))
  ELSE Return(st, Response(200, Str("OK")))

\* The handler parsing the body and answering a challenge before it looks
\* at the signature.
HandleVerified_parseFirst(st, verified) ==
  IF st.event.httpMethod # "POST"
  THEN Return(st, Response(405, Str("Method Not Allowed")))
  ELSE IF \/ st.event.body.t # "jsontext"
          \/ Get(st.event.body.v, "type") = Str("url_verification")
  THEN HandlePayload(st, JSONparse(st.event.body))
  ELSE IF verified.t = "throw" THEN Return(st, verified)
  ELSE IF ~verified.b THEN Return(st, Response(401, Str("Unauthorized")))
  ELSE HandlePayload(st, JSONparse(st.event.body))

\* Lines 85-100: the method, the verification's outcome, the body.  An
\* exception of timingSafeEqual leaves the handler.
HandleVerified(st, verified) ==
  IF st.event.httpMethod # "POST"
  THEN Return(st, Response(405, Str("Method Not Allowed")))
  ELSE IF verified.t = "throw" THEN Return(st, verified)
  ELSE IF ~verified.b THEN Return(st, Response(401, Str("Unauthorized")))
  ELSE HandlePayload(st, JSONparse(st.event.body))

\* Lines 83-144: the handler from its call to its first await or return.
\* The verification runs only for a POST; its result is not read otherwise.
HandleEvent(event, nowSec) ==
  HandleVerified([Idle EXCEPT !.event = event, !.receivedAt = nowSec],
                 verifySlackSignature(event, signingSecret, nowSec))

\* ------------------------------------------------------------------------
\* Lines 151-179: the search for the player.
\* ------------------------------------------------------------------------
\* The test with a look at the entry's ID as well.
NameMatches_withId(player, normalizedSearchName) ==
  /\ Truthy(player)
  /\ Truthy(Get(player, "Name"))
  /\ Truthy(Get(player, "ID"))
  /\ normalizeName(Get(player, "Name").s) = normalizedSearchName

\* player && player.Name && normalizeName(player.Name) === normalizedSearchName
NameMatches(player, normalizedSearchName) ==
  /\ Truthy(player)
  /\ Truthy(Get(player, "Name"))
  /\ normalizeName(Get(player, "Name").s) = normalizedSearchName

\* for (const player of list) { if (...) { ...; break; } } from index i on:
\* the entry the loop stops at, or null.
RECURSIVE SearchFrom(_, _, _)
SearchFrom(list, i, normalizedSearchName) ==
  IF i > Len(list) THEN Null
  ELSE IF NameMatches(list[i], normalizedSearchName) THEN list[i]
  ELSE SearchFrom(list, i + 1, normalizedSearchName)

\* foundPlayer and playerType once the pitchers are scanned.
AfterPitchers(inPitchers) ==
  IF Truthy(inPitchers)
  THEN [foundPlayer |-> inPitchers, playerType |-> Str("pitchers")]
  ELSE [foundPlayer |-> Null, playerType |-> Null]

\* The batters' result overwritten by a match among the pitchers.
AfterBatters_pitchersWin(inBatters, pitchers, normalizedSearchName) ==
  IF Truthy(SearchFrom(pitchers, 1, normalizedSearchName))
  THEN AfterPitchers(SearchFrom(pitchers, 1, normalizedSearchName))
  ELSE IF Truthy(inBatters)
  THEN [foundPlayer |-> inBatters, playerType |-> Str("batters")]
  ELSE [foundPlayer |-> Null, playerType |-> Null]

\* foundPlayer and playerType once the batters are scanned: the pitchers
\* are scanned only when no batter matched.
AfterBatters(inBatters, pitchers, normalizedSearchName) ==
  IF Truthy(inBatters)
  THEN [foundPlayer |-> inBatters, playerType |-> Str("batters")]
  ELSE AfterPitchers(SearchFrom(pitchers, 1, normalizedSearchName))

FindNormalized(batters, pitchers, normalizedSearchName) ==
  AfterBatters(SearchFrom(batters, 1, normalizedSearchName), pitchers,
               normalizedSearchName)

\* Lines 152-174: foundPlayer and playerType after both loops; batters and
\* pitchers are the arrays' elements.
FindPlayer(batters, pitchers, playerName) ==
  FindNormalized(batters, pitchers, normalizeName(playerName))

\* `await res.json() || []`: a falsy body is replaced by the empty array.
OrEmpty(v) == IF Truthy(v) THEN v ELSE Arr(<<>>)

\* Lines 184-191.  new Date().toISOString() is kept as the time it prints.
DraftedData(st, at) ==
  Obj("type" :> st.playerType @@
      "round" :> Num(st.draftInfo.round) @@
      "pick" :> Num(st.draftInfo.pick) @@
      "team" :> st.teamAbbrev @@
      "draftedAt" :> Num(at) @@
      "source" :> Str("slack"))

\* Lines 193-200: the PUT of the mark.
FetchMark(st, draftedData) ==
  Fetch([st EXCEPT !.draftedData = draftedData],
        "PUT", DraftedUrl(Get(st.foundPlayer, "ID").s),
        JSONstringify(draftedData), "putMark")

\* Lines 176-200.
HandleFound(st, at) ==
  IF ~Truthy(st.foundPlayer) \/ ~Truthy(Get(st.foundPlayer, "ID"))
  THEN Return(st, Response(200, Str("Player not found")))
  ELSE FetchMark(st, DraftedData(st, at))

\* for...of over a value that is no array throws.
Elements(v) == IF v.t = "array" THEN v.a ELSE <<>>

RecordFound(st, found, at) ==
  IF ~Truthy(found.foundPlayer) /\ st.pitchers.t # "array"
  THEN Return(st, Response(500, Str("Server error")))
  ELSE HandleFound([st EXCEPT !.foundPlayer = found.foundPlayer,
                              !.playerType = found.playerType], at)

\* Lines 151-200: from the pitchers' arrival to the fetch of the mark's PUT.
\* An exception of a loop is caught and answered with a 500; the pitchers
\* are iterated only when no batter matched.
SearchAndMark(st, at) ==
  IF st.batters.t # "array"
  THEN Return(st, Response(500, Str("Server error")))
  ELSE RecordFound(st, FindPlayer(Elements(st.batters), Elements(st.pitchers),
                                  st.draftInfo.playerName), at)

\* ------------------------------------------------------------------------
\* The environment: the requests Slack or anyone else may send, and what the
\* store may answer.
\* ------------------------------------------------------------------------
MaxTicks == 2

Times == 1000..(1000 + MaxTicks)

MunceyText ==
  "Round 3, Pick 12 (#56 overall): Denver Blucifers select P Bill Muncey"

Texts ==
  {MunceyText,
   "Congrats to everyone on a great draft!",
   "Round 3, Pick 12 (#56 overall): Nonexistent Team select P Bill Muncey",
   "Round 3, Pick 12 (#56 overall): denver blucifers select P Bill Muncey",
   "Round 3, Pick 12 (#56 overall): Denver Blucifers! select P Bill Muncey",
   "Round 3, Pick 12 (#56 overall): constructor select P Bill Muncey",
   "Round 3, Pick 12 (#56 overall): toString select P Bill Muncey",
   "Round 3, Pick 12 (#56 overall):   select P Bill Muncey",
   "Round 1, Pick 2 (#2 overall): Curacao Blue Wave select SS/OF Al Kaline",
   "Round 1, Pick 2 (#2 overall): Sao Paulo Black Mambas select SS/OF Al Kaline",
   "round 07, pick 1 (#61 OVERALL): Tokyo Tigers select p bill  muncey!",
   "Round 3, Pick 12 (#56 overall): Denver Blucifers select P !"}

Message(type, subtype, botId, text) ==
  JsonText(Obj("type" :> Str("event_callback") @@
               "event" :> Obj("type" :> type @@ "subtype" :> subtype @@
                              "bot_id" :> botId @@ "text" :> text)))

DraftBody == Message(Str("message"), Undefined, Undefined, Str(MunceyText))

ChallengeBody ==
  JsonText(Obj("type" :> Str("url_verification") @@
               "challenge" :> Str("3eZbrw1aBm2rZgRNFdxV2595E9CY3gmdALWMmHkvFXO7")))

InvalidJsonBody == RawText("payload=%7B%22type%22")

MessageBodies ==
  {Message(Str("message"), Undefined, Undefined, text) :
     text \in {Undefined} \cup {Str(x) : x \in Texts}}
  \cup {Message(type, subtype, botId, Str(MunceyText)) :
          type \in {Str("message"), Str("reaction_added"), Undefined},
          subtype \in {Undefined, Str("message_changed")},
          botId \in {Undefined, Str("B01")}}

Bodies ==
  MessageBodies \cup
  {InvalidJsonBody, ChallengeBody,
   JsonText(Obj("type" :> Str("url_verification"))),
   JsonText(Null), JsonText(Num(5)),
   JsonText(Obj("type" :> Str("event_callback"))),
   JsonText(Obj("type" :> Str("event_callback") @@ "event" :> Null)),
   JsonText(Obj("type" :> Str("app_rate_limited")))}

\* The bodies sent with every combination of headers.
ProbeBodies == {InvalidJsonBody, ChallengeBody, DraftBody}

TimestampHeaders ==
  {Undefined, Str("699"), Str("700"), Str("1000"), Str("1300"), Str("1301"),
   Str("abc")}

\* A signature header: none, empty, of another length, of the right length
\* but arbitrary, or a signature made with some key for some timestamp and
\* body (the request's own, or those of a request signed earlier).
SignatureHeaders(ts, body) ==
  {Undefined, Str(""), Str("v0=abc"),
   Str("v0=0000000000000000000000000000000000000000000000000000000000000000")}
  \cup {Sign(key, t, b) :
          key \in {signingSecret, "attacker"},
          t \in {"1000"} \cup (IF ts = Undefined THEN {} ELSE {ts.s}),
          b \in {body, DraftBody}}

Event(method, sig, ts, body) ==
  [httpMethod |-> method, headers |-> [sig |-> sig, ts |-> ts], body |-> body]

Requests ==
  {Event("POST", Sign(signingSecret, "1000", b), Str("1000"), b) : b \in Bodies}
  \cup {Event("GET", Sign(signingSecret, "1000", b), Str("1000"), b) :
          b \in ProbeBodies}
  \cup UNION {UNION {{Event("POST", sig, ts, b) : sig \in SignatureHeaders(ts, b)} :
                       ts \in TimestampHeaders} : b \in ProbeBodies}

\* Player records of the store.
Player(name, id) == Obj("Name" :> Str(name) @@ "ID" :> Str(id))

Muncey == Player("Bill Muncey", "p123")
MunceyBatter == Player("BILL MUNCEY", "b7")
Kaline == Player("Al Kaline", "b1")
NoIdMuncey == Obj("Name" :> Str("bill muncey"))
EmptyIdMuncey == Player("Bill Muncey", "")

\* The arrays the store may hold; Firebase leaves null at a missing index.
StoreLists ==
  {<<>>, <<Muncey>>, <<Kaline, MunceyBatter>>, <<Null, Kaline>>,
   <<NoIdMuncey, Muncey>>, <<EmptyIdMuncey>>, <<MunceyBatter, Muncey>>,
   <<Player("", ""), Player("?", "q1")>>}

\* What a GET may bring: a network failure, or a body that is an array, null,
\* an error object, or no JSON at all.
GetResponses ==
  {[kind |-> "reject", body |-> Undefined]}
  \cup {[kind |-> "response", body |-> b] :
          b \in {JsonText(Arr(l)) : l \in StoreLists}
                \cup {JsonText(Null),
                      JsonText(Obj("error" :> Str("Permission denied"))),
                      RawText("<html>502 Bad Gateway</html>")}}

\* What a PUT may bring: an OK response, a non-OK response, or a network
\* failure, before or after the store applied the write.
PutOutcomes ==
  {[result |-> "ok", applied |-> TRUE],
   [result |-> "notok", applied |-> FALSE],
   [result |-> "reject", applied |-> FALSE],
   [result |-> "reject", applied |-> TRUE]}

\* `await fetch(url)` then `await res.json()`: the value, or the exception
\* of a failed request or of a body that is no JSON.
ResponseJson(r) ==
  IF r.kind = "reject" THEN Throw("TypeError") ELSE JSONparse(r.body)

\* Lines 144-148: the batters arrive, the pitchers are asked for.
GotBatters(st, json) ==
  IF json.t = "throw" THEN Return(st, Response(500, Str("Server error")))
  ELSE Fetch([st EXCEPT !.batters = OrEmpty(json)],
             "GET", PitchersUrl, Undefined, "fetchPitchers")

\* Lines 148-200: the pitchers arrive.
GotPitchers(st, json, at) ==
  IF json.t = "throw" THEN Return(st, Response(500, Str("Server error")))
  ELSE SearchAndMark([st EXCEPT !.pitchers = OrEmpty(json)], at)

\* The timestamp written without a look at updateRes.ok.
MarkPut_unchecked(st, outcome, at) ==
  IF outcome = "reject" THEN Return(st, Response(500, Str("Server error")))
  ELSE Fetch([st EXCEPT !.lastUpdatedBody = JsonText(Num(at))],
             "PUT", LastUpdatedUrl, JsonText(Num(at)), "putTimestamp")

\* Lines 202-218: the answer to the PUT of the mark.
MarkPut(st, outcome, at) ==
  IF outcome = "reject" THEN Return(st, Response(500, Str("Server error")))
  ELSE IF outcome = "notok"
  THEN Return(st, Response(500, Str("Firebase update failed")))
  ELSE Fetch([st EXCEPT !.lastUpdatedBody = JsonText(Num(at))],
             "PUT", LastUpdatedUrl, JsonText(Num(at)), "putTimestamp")

\* The status of the timestamp write checked as the mark's is.
TimestampPut_checked(st, outcome) ==
  IF outcome = "reject" THEN Return(st, Response(500, Str("Server error")))
  ELSE IF outcome = "notok"
  THEN Return(st, Response(500, Str("Firebase update failed")))
  ELSE Return(st, Response(200, Str("Player drafted successfully")))

\* Lines 204-223: the answer to the PUT of lastUpdated.
TimestampPut(st, outcome) ==
  IF outcome = "reject" THEN Return(st, Response(500, Str("Server error")))
  ELSE Return(st, Response(200, Str("Player drafted successfully")))

\* The store's answer to the invocation's pending request has arrived.
Answered(st, r) == [st EXCEPT !.responses = Append(@, r)]

\* ------------------------------------------------------------------------
\* Actions of the handler.
\* ------------------------------------------------------------------------
Init ==
  /\ now = 1000
  /\ drafted = <<>>
  /\ lastUpdated = Null
  /\ inv = [i \in {1} |-> Idle]
  /\ arg = Undefined
  /\ result = Undefined

\* A request arrives: lines 83-144.
Receive(i) ==
  /\ inv[i].pc = "idle"
  /\ \E event \in Requests :
       inv' = [inv EXCEPT ![i] = HandleEvent(event, now)]
  /\ UNCHANGED <<now, drafted, lastUpdated, arg, result>>

\* The answer to GET batters: lines 144-148.
FetchBatters(i) ==
  /\ inv[i].pc = "fetchBatters"
  /\ \E r \in GetResponses :
       inv' = [inv EXCEPT ![i] = GotBatters(Answered(inv[i], r),
                                            ResponseJson(r))]
  /\ UNCHANGED <<now, drafted, lastUpdated, arg, result>>

\* The answer to GET pitchers: lines 148-200.
FetchPitchers(i) ==
  /\ inv[i].pc = "fetchPitchers"
  /\ \E r \in GetResponses :
       inv' = [inv EXCEPT ![i] = GotPitchers(Answered(inv[i], r),
                                             ResponseJson(r), now)]
  /\ UNCHANGED <<now, drafted, lastUpdated, arg, result>>

\* The PUT of the mark served as a write that keeps a value the key
\* already has.
PutMark_keepFirst(i) ==
  /\ inv[i].pc = "putMark"
  /\ \E o \in PutOutcomes :
       /\ drafted' =
            IF o.applied
            THEN drafted @@ (Get(inv[i].foundPlayer, "ID").s :>
                               JSONstringify(inv[i].draftedData))
            ELSE drafted
       /\ inv' = [inv EXCEPT ![i] = MarkPut(Answered(inv[i], o), o.result, now)]
  /\ UNCHANGED <<now, lastUpdated, arg, result>>

\* The store serves the PUT of the mark and the handler goes on: lines
\* 193-218.
PutMark(i) ==
  /\ inv[i].pc = "putMark"
  /\ \E o \in PutOutcomes :
       /\ drafted' =
            IF o.applied
            THEN (Get(inv[i].foundPlayer, "ID").s :>
                    JSONstringify(inv[i].draftedData)) @@ drafted
            ELSE drafted
       /\ inv' = [inv EXCEPT ![i] = MarkPut(Answered(inv[i], o), o.result, now)]
  /\ UNCHANGED <<now, lastUpdated, arg, result>>

\* The store serves the PUT of lastUpdated and the handler returns: lines
\* 204-223.
PutTimestamp(i) ==
  /\ inv[i].pc = "putTimestamp"
  /\ \E o \in PutOutcomes :
       /\ lastUpdated' = IF o.applied THEN inv[i].lastUpdatedBody
                         ELSE lastUpdated
       /\ inv' = [inv EXCEPT ![i] = TimestampPut(Answered(inv[i], o), o.result)]
  /\ UNCHANGED <<now, drafted, arg, result>>

\* Time passes.
Tick ==
  /\ now + 1 \in Times
  /\ now' = now + 1
  /\ UNCHANGED <<drafted, lastUpdated, inv, arg, result>>

Next ==
  \/ \E i \in DOMAIN inv : Receive(i)
  \/ \E i \in DOMAIN inv : FetchBatters(i)
  \/ \E i \in DOMAIN inv : FetchPitchers(i)
  \/ \E i \in DOMAIN inv : PutMark(i)
  \/ \E i \in DOMAIN inv : PutTimestamp(i)
  \/ Tick

Spec == Init /\ [][Next]_vars


\* ------------------------------------------------------------------------
\* The helper functions on their own: an input is drawn, the function is
\* applied to it.
\* ------------------------------------------------------------------------
NoInvocations == [i \in {} |-> Idle]

StoreUntouched ==
  /\ now = 1000
  /\ drafted = <<>>
  /\ lastUpdated = Null
  /\ inv = NoInvocations

\* All strings of at most n characters of the alphabet.
RECURSIVE StringsOver(_, _)
Extend(strings, alphabet) ==
  strings \cup {s \o c : s \in strings, c \in alphabet}

StringsOver(alphabet, n) ==
  IF n = 0 THEN {""} ELSE Extend(StringsOver(alphabet, n - 1), alphabet)

\* normalizeName: letters of both cases, a digit, two kinds of whitespace,
\* punctuation.
MaxNameLen == 4

NameAlphabet == {"a", "B", "1", " ", "\t", "!"}

NameInputs ==
  StringsOver(NameAlphabet, MaxNameLen)
  \cup {"Bill  Muncey!", "bill muncey", " O'Neil-Smith\r\n JR. "}

InitNorm ==
  /\ StoreUntouched
  /\ arg \in {Str(s) : s \in NameInputs}
  /\ result = Undefined

Normalize ==
  /\ result = Undefined
  /\ result' = Str(normalizeName(arg.s))
  /\ UNCHANGED <<now, drafted, lastUpdated, inv, arg>>

NextNorm == Normalize

SpecNorm == InitNorm /\ [][NextNorm]_vars

\* parseDraftMessage: announcements put together from parts, each part in
\* its well-formed and in some ill-formed shapes, and a few other texts.
Announcement(before, round, pick, teamName, position, playerName) ==
  before \o "Round " \o round \o ", Pick " \o pick \o " (#56 overall): "
    \o teamName \o " select " \o position \o " " \o playerName

SelectTwiceText ==
  "Round 1, Pick 2 (#3 overall): Tokyo Tigers select P Al select C Bo"

ParseInputs ==
  Texts
  \cup {SelectTwiceText, "Round 0, Pick 0 (#0 overall): Tokyo Tigers select P Bo"}
  \cup {Announcement(before, round, pick, teamName, position, playerName) :
          before \in {"", "FYI Round 1: "},
          round \in {"3", "0", "007", ""},
          pick \in {"12", "0"},
          teamName \in {"Denver Blucifers", "", " ", " \t ",
                        "Tokyo Tigers select P Al"},
          position \in {"P", "SP/RP", "p", "sp/rp", "P/", "1B", "P/C/D"},
          playerName \in {"Bill Muncey", "", " ", " Bo ", "Al select C Bo",
                          "Bo\nJr"}}

InitParse ==
  /\ StoreUntouched
  /\ arg \in {Str(s) : s \in ParseInputs}
  /\ result = Undefined

Parse ==
  /\ result = Undefined
  /\ result' = parseDraftMessage(arg.s)
  /\ UNCHANGED <<now, drafted, lastUpdated, inv, arg>>

NextParse == Parse

SpecParse == InitParse /\ [][NextParse]_vars

\* The search: arrays of at most MaxList entries.
MaxList == 2

EmptyName == Player("", "e0")
Punctuation == Player("?", "q1")

ResolveEntries ==
  {Muncey, MunceyBatter, NoIdMuncey, Null, EmptyName, Punctuation}

RECURSIVE ListsOver(_, _)
ExtendLists(lists, entries) ==
  lists \cup {Append(l, e) : l \in lists, e \in entries}

ListsOver(entries, n) ==
  IF n = 0 THEN {<<>>} ELSE ExtendLists(ListsOver(entries, n - 1), entries)

InitResolve ==
  /\ StoreUntouched
  /\ arg \in [batters : ListsOver(ResolveEntries, MaxList),
              pitchers : ListsOver(ResolveEntries, MaxList),
              playerName : {"Bill Muncey", "!"}]
  /\ result = Undefined

Resolve ==
  /\ result = Undefined
  /\ result' = FindPlayer(arg.batters, arg.pitchers, arg.playerName)
  /\ UNCHANGED <<now, drafted, lastUpdated, inv, arg>>

NextResolve == Resolve

SpecResolve == InitResolve /\ [][NextResolve]_vars


\* ------------------------------------------------------------------------
\* Two invocations of the handler against one store.  The hosting
\* environment runs an invocation per incoming message; they share nothing
\* but the store.  The messages are correctly signed announcements, two of
\* them of the same player, and the store answers the GETs with its lists.
\* ------------------------------------------------------------------------
SamePlayerText ==
  "round 07, pick 1 (#61 OVERALL): Tokyo Tigers select p bill  muncey!"

KalineText ==
  "Round 1, Pick 2 (#2 overall): Curacao Blue Wave select SS/OF Al Kaline"

PairRequests ==
  {Event("POST", Sign(signingSecret, "1000", b), Str("1000"), b) :
     b \in {Message(Str("message"), Undefined, Undefined, Str(text)) :
              text \in {MunceyText, SamePlayerText, KalineText}}}

\* The store's lists: what it answers to GET batters and to GET pitchers.
PairBatters ==
  {[kind |-> "response", body |-> JsonText(Arr(<<Null, Kaline>>))]}

PairPitchers ==
  {[kind |-> "response", body |-> JsonText(Arr(<<Muncey>>))]}

InitPair ==
  /\ now = 1000
  /\ drafted = <<>>
  /\ lastUpdated = Null
  /\ inv = [i \in {1, 2} |-> Idle]
  /\ arg = Undefined
  /\ result = Undefined

\* Lines 83-144 for one of the events.
ReceiveFrom(i, events) ==
  /\ inv[i].pc = "idle"
  /\ \E event \in events :
       inv' = [inv EXCEPT ![i] = HandleEvent(event, now)]
  /\ UNCHANGED <<now, drafted, lastUpdated, arg, result>>

\* Lines 144-148 for one of the responses.
FetchBattersFrom(i, responses) ==
  /\ inv[i].pc = "fetchBatters"
  /\ \E r \in responses :
       inv' = [inv EXCEPT ![i] = GotBatters(Answered(inv[i], r),
                                            ResponseJson(r))]
  /\ UNCHANGED <<now, drafted, lastUpdated, arg, result>>

\* Lines 148-200 for one of the responses.
FetchPitchersFrom(i, responses) ==
  /\ inv[i].pc = "fetchPitchers"
  /\ \E r \in responses :
       inv' = [inv EXCEPT ![i] = GotPitchers(Answered(inv[i], r),
                                             ResponseJson(r), now)]
  /\ UNCHANGED <<now, drafted, lastUpdated, arg, result>>

ReceivePair(i) == ReceiveFrom(i, PairRequests)

FetchBattersPair(i) == FetchBattersFrom(i, PairBatters)

FetchPitchersPair(i) == FetchPitchersFrom(i, PairPitchers)

NextPair ==
  \/ \E i \in DOMAIN inv : ReceivePair(i)
  \/ \E i \in DOMAIN inv : FetchBattersPair(i)
  \/ \E i \in DOMAIN inv : FetchPitchersPair(i)
  \/ \E i \in DOMAIN inv : PutMark(i)
  \/ \E i \in DOMAIN inv : PutTimestamp(i)
  \/ Tick

SpecPair == InitPair /\ [][NextPair]_vars

\* The same message processed twice: the second invocation is started at a
\* later time, once the first has returned, with the first one's event, and
\* the store answers its GETs as it answered the first one's.
ReceiveAgain ==
  /\ inv[1].pc = "done"
  /\ now > inv[1].receivedAt
  /\ ReceiveFrom(2, {inv[1].event})

FetchBattersAgain ==
  /\ Len(inv[1].responses) >= 1
  /\ FetchBattersFrom(2, {inv[1].responses[1]})

FetchPitchersAgain ==
  /\ Len(inv[1].responses) >= 2
  /\ FetchPitchersFrom(2, {inv[1].responses[2]})

NextTwice ==
  \/ ReceivePair(1)
  \/ FetchBattersPair(1)
  \/ FetchPitchersPair(1)
  \/ PutMark(1)
  \/ PutTimestamp(1)
  \/ ReceiveAgain
  \/ FetchBattersAgain
  \/ FetchPitchersAgain
  \/ PutMark(2)
  \/ PutTimestamp(2)
  \/ Tick

SpecTwice == InitPair /\ [][NextTwice]_vars

\* ------------------------------------------------------------------------
\* Properties.
\* ------------------------------------------------------------------------
Started == {i \in DOMAIN inv : inv[i].pc # "idle"}

Finished == {i \in DOMAIN inv : inv[i].pc = "done"}

Responded(i, statusCode) ==
  /\ inv[i].response.t = "response"
  /\ inv[i].response.statusCode = statusCode

RespondedWith(i, statusCode, body) ==
  inv[i].response = Response(statusCode, Str(body))

IsPost(event) == event.httpMethod = "POST"

\* The body is JSON and denotes an object.
IsJsonObject(event) == event.body.t = "jsontext" /\ event.body.v.t = "object"

HasType(event, type) ==
  /\ IsJsonObject(event)
  /\ "type" \in DOMAIN event.body.v.f
  /\ event.body.v.f["type"] = Str(type)

IsChallenge(event) == HasType(event, "url_verification")

\* The timestamp header is a number more than 300 seconds from time at.
TimestampTooFar(event, at) ==
  /\ event.headers.ts.t = "string"
  /\ ToNumber(event.headers.ts.s) # NaN
  /\ \/ at - ToNumber(event.headers.ts.s).n > 300
     \/ ToNumber(event.headers.ts.s).n - at > 300

\* "v0=" + HMAC-SHA256(secret, "v0:" + timestamp + ":" + rawBody)
ExpectedSignature(event) ==
  Sign(signingSecret, event.headers.ts.s, event.body)

\* Both headers are there, the timestamp is in the window and the signature
\* is the expected one.
SignatureValid(event, at) ==
  /\ event.headers.sig # Undefined
  /\ event.headers.ts # Undefined
  /\ ~TimestampTooFar(event, at)
  /\ event.headers.sig = ExpectedSignature(event)

\* The cases in which verifySlackSignature returns false: a header missing
\* or empty, the timestamp outside the window, or a signature of the
\* expected length that is not the expected one.
SignatureRefused(event, at) ==
  \/ ~Truthy(event.headers.sig)
  \/ ~Truthy(event.headers.ts)
  \/ TimestampTooFar(event, at)
  \/ /\ ByteLength(event.headers.sig) = SignatureLength
     /\ event.headers.sig # ExpectedSignature(event)

Puts(i) ==
  {k \in 1..Len(inv[i].requests) : inv[i].requests[k].method = "PUT"}

Gets(i) ==
  {k \in 1..Len(inv[i].requests) : inv[i].requests[k].method = "GET"}

\* C1: a POST request that is no verification challenge and whose signature
\* header or timestamp header is missing, whose timestamp is more than 300
\* seconds from the current time, or whose signature is anything but the
\* expected one, is answered with 401 and makes no request to the store.
C1_BadSignatureIsUnauthorized ==
  \A i \in Finished :
    (/\ IsPost(inv[i].event)
     /\ ~IsChallenge(inv[i].event)
     /\ ~SignatureValid(inv[i].event, inv[i].receivedAt))
    => /\ Responded(i, 401)
       /\ inv[i].requests = NoRequests

\* What JSON.stringify({challenge: payload.challenge}) denotes.
ChallengeEcho(event) ==
  JsonText(Obj(IF "challenge" \in DOMAIN event.body.v.f
               THEN "challenge" :> event.body.v.f["challenge"]
               ELSE <<>>))

\* C2 as stated: a POST whose body is a url_verification payload is answered
\* with 200 and the echoed challenge whatever its signature and timestamp
\* headers are.
C2_ChallengeBypassesSignature ==
  \A i \in Finished :
    (IsPost(inv[i].event) /\ IsChallenge(inv[i].event))
    => inv[i].response = Response(200, ChallengeEcho(inv[i].event))

\* C2 amended: a POST whose body is a url_verification payload is answered
\* with 200 and the echoed challenge when its headers verify; the
\* verification is not bypassed: with headers that do not verify the answer
\* is never 200, and it is 401 whenever the verification returns false.
C2_ChallengeEchoedWhenVerified ==
  \A i \in Finished :
    (IsPost(inv[i].event) /\ IsChallenge(inv[i].event))
    => /\ SignatureValid(inv[i].event, inv[i].receivedAt)
            => inv[i].response = Response(200, ChallengeEcho(inv[i].event))
       /\ ~SignatureValid(inv[i].event, inv[i].receivedAt)
            => ~Responded(i, 200)
       /\ SignatureRefused(inv[i].event, inv[i].receivedAt)
            => Responded(i, 401)

C2_Witness ==
  \E i \in Finished :
    /\ inv[i].event.body = ChallengeBody
    /\ IsPost(inv[i].event)
    /\ SignatureValid(inv[i].event, inv[i].receivedAt)
    /\ inv[i].response = Response(200, ChallengeEcho(inv[i].event))

\* C3: every invocation ends with a response whose status is one of 200,
\* 400, 401, 405, 500; no exception leaves the handler.
C3_AlwaysAResponse ==
  \A i \in Finished :
    /\ inv[i].response.t = "response"
    /\ inv[i].response.statusCode \in {200, 400, 401, 405, 500}

\* C4 as stated: a POST whose body is not JSON is answered with 400 whatever
\* its signature and timestamp headers are.
C4_InvalidJsonAlways400 ==
  \A i \in Finished :
    (IsPost(inv[i].event) /\ inv[i].event.body.t = "rawtext")
    => Responded(i, 400)

\* C4 amended: a POST whose body is not JSON is answered with 400 when its
\* headers verify; the signature is verified before the body is parsed, so
\* with headers that do not verify the answer is never 400, and it is 401
\* whenever the verification returns false.
C4_InvalidJson400WhenVerified ==
  \A i \in Finished :
    (IsPost(inv[i].event) /\ inv[i].event.body.t = "rawtext")
    => /\ SignatureValid(inv[i].event, inv[i].receivedAt)
            => RespondedWith(i, 400, "Invalid JSON")
       /\ ~SignatureValid(inv[i].event, inv[i].receivedAt)
            => ~Responded(i, 400)
       /\ SignatureRefused(inv[i].event, inv[i].receivedAt)
            => Responded(i, 401)

C4_Witness ==
  \E i \in Finished :
    /\ IsPost(inv[i].event)
    /\ inv[i].event.body = InvalidJsonBody
    /\ SignatureValid(inv[i].event, inv[i].receivedAt)
    /\ RespondedWith(i, 400, "Invalid JSON")

\* A correctly signed event_callback POST that carries an event object.
SignedEventCallback(i) ==
  /\ IsPost(inv[i].event)
  /\ SignatureValid(inv[i].event, inv[i].receivedAt)
  /\ HasType(inv[i].event, "event_callback")
  /\ "event" \in DOMAIN inv[i].event.body.v.f
  /\ inv[i].event.body.v.f["event"].t = "object"

EventOf(i) == inv[i].event.body.v.f["event"].f

Present(f, key) == key \in DOMAIN f /\ Truthy(f[key])

\* The event is a message with no subtype and no bot_id.
PlainMessage(i) ==
  /\ "type" \in DOMAIN EventOf(i)
  /\ EventOf(i)["type"] = Str("message")
  /\ ~Present(EventOf(i), "subtype")
  /\ ~Present(EventOf(i), "bot_id")

HasText(i) ==
  /\ "text" \in DOMAIN EventOf(i)
  /\ EventOf(i)["text"].t = "string"

TextOf(i) == EventOf(i)["text"].s

\* No entry of the fetched arrays has the announced player's name.
NobodyMatches(i) ==
  /\ inv[i].batters.t = "array"
  /\ inv[i].pitchers.t = "array"
  /\ \A list \in {inv[i].batters.a, inv[i].pitchers.a} :
       \A k \in 1..Len(list) :
         ~(/\ list[k].t = "object"
           /\ Present(list[k].f, "Name")
           /\ normalizeName(list[k].f["Name"].s)
                = normalizeName(inv[i].draftInfo.playerName))

IgnoredBodies ==
  {Str("Ignored"), Str("Not a draft message"), Str("Unknown team"),
   Str("Player not found")}

\* C5: a correctly signed event_callback request that ends in an ignore
\* outcome is answered with 200 and makes no PUT: an event that is no plain
\* message, a text that does not match the pattern, and a team name that is
\* not in the table, end so without any GET either; a search in which no
\* entry has the player's name ends so after the two GETs.
C5_IgnoreOutcomes ==
  \A i \in Started :
    SignedEventCallback(i)
    => /\ ~PlainMessage(i)
            => /\ RespondedWith(i, 200, "Ignored")
               /\ inv[i].requests = NoRequests
       /\ (PlainMessage(i) /\ HasText(i) /\ inv[i].draftInfo = NoMatch)
            => /\ RespondedWith(i, 200, "Not a draft message")
               /\ inv[i].requests = NoRequests
       /\ (PlainMessage(i) /\ HasText(i) /\ inv[i].draftInfo # NoMatch
             /\ inv[i].draftInfo.teamName \notin DOMAIN TeamTable)
            => /\ RespondedWith(i, 200, "Unknown team")
               /\ inv[i].requests = NoRequests
       /\ NobodyMatches(i)
            => /\ RespondedWith(i, 200, "Player not found")
               /\ Puts(i) = {}
               /\ Cardinality(Gets(i)) = 2
       /\ (i \in Finished /\ inv[i].response.t = "response"
             /\ inv[i].response.body \in IgnoredBodies)
            => /\ Responded(i, 200)
               /\ Puts(i) = {}
               /\ inv[i].response.body # Str("Player not found")
                    => inv[i].requests = NoRequests

\* C6: the team is resolved by an exact lookup among the table's names: a
\* parsed team name of the table yields its code, and for any other name
\* the handler answers 200 'Unknown team' and makes no request to the store.
C6_TeamExactLookup ==
  /\ LookupTeam("Curacao Blue Wave") = Str("SPA")
  /\ LookupTeam("Sao Paulo Black Mambas") = Str("SPA")
  /\ \A i \in Started :
       inv[i].draftInfo \notin {Undefined, NoMatch}
       => IF inv[i].draftInfo.teamName \in DOMAIN TeamTable
          THEN inv[i].teamAbbrev = TeamTable[inv[i].draftInfo.teamName]
          ELSE /\ RespondedWith(i, 200, "Unknown team")
               /\ inv[i].requests = NoRequests

\* C7: parseDraftMessage returns no-match or a record whose five fields are
\* all populated and non-empty.
C7_ParsedFieldsNonEmpty ==
  (result # Undefined /\ result # NoMatch)
  => /\ result.teamName # ""
     /\ result.position # ""
     /\ result.playerName # ""
     /\ result.round \in Nat
     /\ result.pick \in Nat

\* One edit of s that changes only letter case, punctuation or the amount
\* of whitespace: a letter in the other case, a character that is neither
\* letter, digit nor whitespace dropped, a whitespace character doubled or
\* replaced by another one, whitespace put at either end.
OtherCase(c) ==
  IF IsUpper(c) THEN ToLowerChar(c)
  ELSE IF IsLower(c) THEN SubSeq(UpperLetters, IndexIn(c, LowerLetters),
                                 IndexIn(c, LowerLetters))
  ELSE c

IsPunctuation(c) == ~IsLetter(c) /\ ~IsDigit(c) /\ ~IsWhitespace(c)

Splice(s, k, mid) == SubSeq(s, 1, k - 1) \o mid \o SubSeq(s, k + 1, Len(s))

SameNameEdits(s) ==
  {Splice(s, k, OtherCase(CharAt(s, k))) : k \in 1..Len(s)}
  \cup {Splice(s, k, "") : k \in {j \in 1..Len(s) : IsPunctuation(CharAt(s, j))}}
  \cup {Splice(s, k, w \o CharAt(s, k)) :
          k \in {j \in 1..Len(s) : IsWhitespace(CharAt(s, j))},
          w \in {" ", "\t", "\n"}}
  \cup {Splice(s, k, w) :
          k \in {j \in 1..Len(s) : IsWhitespace(CharAt(s, j))},
          w \in {" ", "\t", "\n"}}
  \cup {w \o s : w \in {" ", "\t"}}
  \cup {s \o w : w \in {" ", "\t"}}
  \cup {Splice(s, k, CharAt(s, k) \o "'") : k \in 1..Len(s)}

\* The result holds only lower-case letters, digits and single spaces, and
\* no space at either end.
IsCanonical(s) ==
  /\ \A k \in 1..Len(s) : IsLower(CharAt(s, k)) \/ IsDigit(CharAt(s, k))
                            \/ CharAt(s, k) = " "
  /\ \A k \in 1..(Len(s) - 1) : ~(CharAt(s, k) = " " /\ CharAt(s, k + 1) = " ")
  /\ s # "" => (CharAt(s, 1) # " " /\ CharAt(s, Len(s)) # " ")

\* C8: normalizeName is idempotent, its result holds only lower-case ASCII
\* letters, digits and single spaces with none at either end, and names
\* that differ only in letter case, punctuation or amount of whitespace
\* have the same result.
C8_NormalizeIdempotentCanonical ==
  result # Undefined
  => /\ normalizeName(result.s) = result.s
     /\ IsCanonical(result.s)
     /\ \A other \in SameNameEdits(arg.s) : normalizeName(other) = result.s

C8_Witness ==
  /\ arg = Str("Bill  Muncey!")
  /\ result = Str("bill muncey")
  /\ normalizeName("bill muncey") = result.s

\* The indices of the entries of list that have a Name whose normalized
\* form is wanted; an entry with the empty Name counts when emptyToo.
NameIndices(list, wanted, emptyToo) ==
  {k \in 1..Len(list) :
     /\ list[k].t = "object"
     /\ "Name" \in DOMAIN list[k].f
     /\ emptyToo \/ list[k].f["Name"].s # ""
     /\ normalizeName(list[k].f["Name"].s) = wanted}

Lowest(indices) == CHOOSE k \in indices : \A o \in indices : k <= o

\* The first matching batter, else the first matching pitcher.
FirstNamed(emptyToo) ==
  LET wanted == normalizeName(arg.playerName)
      inBatters == NameIndices(arg.batters, wanted, emptyToo)
      inPitchers == NameIndices(arg.pitchers, wanted, emptyToo)
  IN IF inBatters # {}
     THEN [foundPlayer |-> arg.batters[Lowest(inBatters)],
           playerType |-> Str("batters")]
     ELSE IF inPitchers # {}
     THEN [foundPlayer |-> arg.pitchers[Lowest(inPitchers)],
           playerType |-> Str("pitchers")]
     ELSE [foundPlayer |-> Null, playerType |-> Null]

\* C9 as stated: the resolved player is the lowest-index batter whose
\* normalized Name equals the normalized target name, else the lowest-index
\* such pitcher, and the type is the collection the entry came from.
C9_FirstNormalizedNameWins ==
  result # Undefined => result = FirstNamed(TRUE)

\* C9 amended: the resolved player is the lowest-index batter that has a
\* non-empty Name whose normalized form equals the normalized target name,
\* else the lowest-index such pitcher; a batter wins over a pitcher and the
\* type is the collection the entry came from.
C9_FirstNonEmptyNameWins ==
  result # Undefined => result = FirstNamed(FALSE)

C9_Witness ==
  /\ arg.batters = <<Null, MunceyBatter>>
  /\ arg.pitchers = <<Muncey, Muncey>>
  /\ arg.playerName = "Bill Muncey"
  /\ result = [foundPlayer |-> MunceyBatter, playerType |-> Str("batters")]

MarkPuts(i) ==
  {k \in Puts(i) : inv[i].requests[k].url # LastUpdatedUrl}

\* C10: an invocation that writes a mark writes exactly one, at
\* draftedPlayerIds/<ID of the resolved player>, with the resolved
\* collection as type, the parsed round and pick, the abbreviation of the
\* parsed team name as team, and source "slack".
C10_MarkOfResolvedPlayer ==
  \A i \in Started :
    MarkPuts(i) # {}
    => /\ Cardinality(MarkPuts(i)) = 1
       /\ \A k \in MarkPuts(i) :
            /\ inv[i].requests[k].url
                 = DraftedUrl(inv[i].foundPlayer.f["ID"].s)
            /\ \/ /\ inv[i].playerType = Str("batters")
                  /\ \E n \in 1..Len(inv[i].batters.a) :
                       inv[i].batters.a[n] = inv[i].foundPlayer
               \/ /\ inv[i].playerType = Str("pitchers")
                  /\ \E n \in 1..Len(inv[i].pitchers.a) :
                       inv[i].pitchers.a[n] = inv[i].foundPlayer
            /\ inv[i].draftInfo.teamName \in DOMAIN TeamTable
            /\ DOMAIN inv[i].requests[k].body.v.f
                 = {"type", "round", "pick", "team", "draftedAt", "source"}
            /\ inv[i].requests[k].body.v.f["type"] = inv[i].playerType
            /\ inv[i].requests[k].body.v.f["round"]
                 = Num(inv[i].draftInfo.round)
            /\ inv[i].requests[k].body.v.f["pick"]
                 = Num(inv[i].draftInfo.pick)
            /\ TextOf(i) = MunceyText
                 => /\ inv[i].requests[k].body.v.f["round"] = Num(3)
                    /\ inv[i].requests[k].body.v.f["pick"] = Num(12)
                    /\ inv[i].requests[k].body.v.f["team"] = Str("DEN")
            /\ inv[i].requests[k].body.v.f["team"]
                 = TeamTable[inv[i].draftInfo.teamName]
            /\ inv[i].requests[k].body.v.f["source"] = Str("slack")

\* The mark an invocation sent to the store, and whether the store applied
\* the write.
MarkOf(i) == inv[i].requests[3].body

MarkApplied(i) == Len(inv[i].responses) >= 3 /\ inv[i].responses[3].applied

KeyOf(i) == inv[i].foundPlayer.f["ID"].s

\* A mark without its draftedAt field.
WithoutDraftedAt(mark) ==
  [k \in DOMAIN mark.v.f \ {"draftedAt"} |-> mark.v.f[k]]

\* C11 as stated: the same message processed twice against the same lists,
\* the second time later, with both writes applied, leaves at the player's
\* key the value that processing it once left there.
C11_SecondWriteLeavesValue ==
  (Finished = {1, 2} /\ MarkApplied(1) /\ MarkApplied(2))
  => drafted[KeyOf(1)] = MarkOf(1)

\* C11 amended: the second processing writes at the same key and overwrites
\* the value; the final value is the second invocation's mark, which has
\* the type, round, pick, team and source of the first one's and differs
\* from it at most in draftedAt, the time of the write, which is not
\* earlier than the first one's.
C11_SecondWriteDiffersInDraftedAt ==
  /\ (MarkApplied(1) /\ ~MarkApplied(2)) => drafted[KeyOf(1)] = MarkOf(1)
  /\ (MarkApplied(1) /\ MarkApplied(2))
       => /\ KeyOf(2) = KeyOf(1)
          /\ DOMAIN drafted = {KeyOf(1)}
          /\ drafted[KeyOf(1)] = MarkOf(2)
          /\ WithoutDraftedAt(MarkOf(2)) = WithoutDraftedAt(MarkOf(1))
          /\ MarkOf(2).v.f["draftedAt"].n >= MarkOf(1).v.f["draftedAt"].n

C11_Witness ==
  /\ Finished = {1, 2}
  /\ MarkApplied(1)
  /\ MarkApplied(2)
  /\ MarkOf(1) # MarkOf(2)
  /\ drafted[KeyOf(1)] = MarkOf(2)
  /\ RespondedWith(2, 200, "Player drafted successfully")

\* The invocations whose mark the store has applied.
AppliedIn(st) == Len(st.responses) >= 3 /\ st.responses[3].applied

Writers == {i \in DOMAIN inv : AppliedIn(inv[i])}

\* Every stored value is the complete mark of an invocation that resolved
\* to that key and whose PUT was applied, and every applied PUT left a value
\* at its key; so the value at the key of a player only one invocation
\* resolved to is that invocation's mark.
MarksAreWhole ==
  /\ \A id \in DOMAIN drafted :
       \E i \in Writers : KeyOf(i) = id /\ drafted[id] = MarkOf(i)
  /\ \A i \in Writers : KeyOf(i) \in DOMAIN drafted
  /\ \A i \in Writers :
       (\A j \in Writers : KeyOf(j) = KeyOf(i) => j = i)
       => drafted[KeyOf(i)] = MarkOf(i)

\* The store changes only when it applies an invocation's PUT, and then the
\* value at that invocation's key becomes that invocation's mark, whatever
\* was there, and no other key changes.
LastWriterWins ==
  /\ \A i \in DOMAIN inv :
       (~AppliedIn(inv[i]) /\ AppliedIn(inv'[i]))
       => drafted' = (KeyOf(i) :> MarkOf(i)) @@ drafted
  /\ drafted' # drafted
       => \E i \in DOMAIN inv : ~AppliedIn(inv[i]) /\ AppliedIn(inv'[i])

\* C12: with two invocations running concurrently, in every interleaving of
\* their store requests, the value at a key is the complete mark of an
\* invocation that resolved to that player: of the only such invocation
\* when they resolve to different players, of the one whose PUT was applied
\* last when they resolve to the same player; never a mixture of two marks.
C12_LastWriterWins == []MarksAreWhole /\ [][LastWriterWins]_vars

C12_Witness ==
  /\ Writers = {1, 2}
  /\ KeyOf(1) = KeyOf(2)
  /\ MarkOf(1).v.f["round"] # MarkOf(2).v.f["round"]
  /\ inv[1].receivedAt < inv[2].receivedAt
  /\ inv[2].pc = "done"
  /\ inv[1].pc = "putTimestamp"
  /\ drafted[KeyOf(1)] = MarkOf(1)

\* The invocations whose timestamp write the store has answered; their mark
\* write came back OK.
TimestampAnswered == {i \in Finished : Len(inv[i].responses) = 4}

\* C13 as stated: once the mark write succeeded the answer is 200 'Player
\* drafted successfully' whatever the outcome of the timestamp write, a
\* non-OK status and a rejected request included.
C13_TimestampOutcomeIgnored ==
  \A i \in TimestampAnswered :
    RespondedWith(i, 200, "Player drafted successfully")

\* C13 amended: once the mark write succeeded, the answer is 200 'Player
\* drafted successfully' when the timestamp write gets an HTTP response,
\* OK or not, and 500 'Server error' when the request is rejected; the mark
\* stays written in both cases.
C13_TimestampRejectionIs500 ==
  \A i \in TimestampAnswered :
    /\ inv[i].responses[3].result = "ok"
    /\ inv[i].responses[4].result \in {"ok", "notok"}
         => RespondedWith(i, 200, "Player drafted successfully")
    /\ inv[i].responses[4].result = "reject"
         => RespondedWith(i, 500, "Server error")
    /\ drafted[KeyOf(i)] = MarkOf(i)

C13_Witness ==
  \E i \in TimestampAnswered :
    /\ inv[i].responses[4].result = "notok"
    /\ lastUpdated = Null
    /\ RespondedWith(i, 200, "Player drafted successfully")

\* What the k-th store request of an invocation is.
IsRequest(i, k) ==
  /\ inv[i].requests[k].method = (IF k <= 2 THEN "GET" ELSE "PUT")
  /\ inv[i].requests[k].url =
       (CASE k = 1 -> BattersUrl
          [] k = 2 -> PitchersUrl
          [] k = 3 -> DraftedUrl(KeyOf(i))
          [] k = 4 -> LastUpdatedUrl)

\* C14: an invocation's store requests are GET batters, GET pitchers, PUT
\* mark, PUT lastUpdated, in this order, each issued after the one before
\* was answered; the timestamp PUT is issued only after the mark PUT came
\* back OK, so wherever the timestamp is written the mark is written, and
\* after a mark PUT that is not OK no timestamp PUT is issued.
C14_RequestsInOrder ==
  /\ \A i \in Started :
       /\ Len(inv[i].requests) <= 4
       /\ \A k \in 1..Len(inv[i].requests) : IsRequest(i, k)
       /\ Len(inv[i].responses) =
            (IF i \in Finished \/ inv[i].requests = NoRequests
             THEN Len(inv[i].requests) ELSE Len(inv[i].requests) - 1)
       /\ Len(inv[i].requests) = 4
            => /\ inv[i].responses[3].result = "ok"
               /\ AppliedIn(inv[i])
               /\ KeyOf(i) \in DOMAIN drafted
       /\ (Len(inv[i].responses) >= 3 /\ inv[i].responses[3].result # "ok")
            => /\ Len(inv[i].requests) = 3
               /\ i \in Finished
  /\ lastUpdated # Null
       => \E i \in Started :
            /\ Len(inv[i].requests) = 4
            /\ lastUpdated = inv[i].requests[4].body
            /\ drafted[KeyOf(i)] = MarkOf(i)

C14_Witness ==
  \E i \in Finished :
    /\ Len(inv[i].requests) = 4
    /\ lastUpdated = inv[i].requests[4].body
    /\ drafted[KeyOf(i)] = MarkOf(i)
    /\ RespondedWith(i, 200, "Player drafted successfully")

\* A GET that failed or whose body is no list.
GetFailed(r) ==
  \/ r.kind = "reject"
  \/ r.body.t # "jsontext"
  \/ r.body.v.t # "array"

\* C15: when the GET of batters or of pitchers fails or brings a body that
\* is no list, or the mark PUT is rejected or comes back not OK, the answer
\* is 500.
C15_DownstreamFailureIs500 ==
  \A i \in Finished :
    (\/ \E k \in 1..Len(inv[i].responses) : k <= 2 /\ GetFailed(inv[i].responses[k])
     \/ Len(inv[i].responses) >= 3 /\ inv[i].responses[3].result # "ok")
    => Responded(i, 500)

IsRecord(v) == v # Undefined /\ v # NoMatch

\* C16: the team name is matched non-greedily against "select": the record
\* of a text with more than one " select <position> " has as teamName the
\* text before the first of them, so no teamName holds such an occurrence,
\* and as playerName everything after the first position token.
C16_TeamNameEndsAtFirstSelect ==
  IsRecord(result)
  => /\ \A e \in 1..Len(result.teamName) : ~TailMatches(result.teamName, e)
     /\ arg.s = SelectTwiceText
          => /\ result.teamName = "Tokyo Tigers"
             /\ result.position = "P"
             /\ result.playerName = "Al select C Bo"

\* One or more upper-case letters, optionally followed by one '/' and one
\* or more upper-case letters.
IsUpperGroup(s) == s # "" /\ \A k \in 1..Len(s) : IsUpper(CharAt(s, k))

IsPositionToken(s) ==
  \/ IsUpperGroup(s)
  \/ \E k \in 1..Len(s) :
       /\ CharAt(s, k) = "/"
       /\ IsUpperGroup(SubSeq(s, 1, k - 1))
       /\ IsUpperGroup(SubSeq(s, k + 1, Len(s)))

\* C17: the position of every record is one or more upper-case letters,
\* optionally followed by '/' and a second group of upper-case letters; a
\* token with a lower-case letter is never a record's position.
C17_PositionIsUpperCase ==
  IsRecord(result) => IsPositionToken(result.position)

\* C18: round and pick of every record are integers of at least 1.
C18_RoundAndPickAtLeastOne ==
  IsRecord(result) => (result.round >= 1 /\ result.pick >= 1)

\* The first entry, batters before pitchers, that has a Name whose
\* normalized form is wanted, or null; an entry with the empty Name counts
\* when emptyToo.
FirstEntry(batters, pitchers, wanted, emptyToo) ==
  LET inBatters == NameIndices(batters, wanted, emptyToo)
      inPitchers == NameIndices(pitchers, wanted, emptyToo)
  IN IF inBatters # {} THEN batters[Lowest(inBatters)]
     ELSE IF inPitchers # {} THEN pitchers[Lowest(inPitchers)]
     ELSE Null

\* The invocations that have run the search: both lists have arrived and
\* the batters are a list.
Searched ==
  {i \in Started : inv[i].pitchers # Undefined /\ inv[i].batters.t = "array"}

FirstEntryOf(i, emptyToo) ==
  FirstEntry(Elements(inv[i].batters), Elements(inv[i].pitchers),
             normalizeName(inv[i].draftInfo.playerName), emptyToo)

HasNoId(player) == player # Null /\ ~Truthy(Get(player, "ID"))

WritesNothing(i) ==
  /\ RespondedWith(i, 200, "Player not found")
  /\ Puts(i) = {}
  /\ drafted = <<>>
  /\ lastUpdated = Null

\* C19 as stated: when the first entry, batters before pitchers, whose
\* normalized Name equals the normalized target has a missing or empty ID,
\* the answer is 200 'Player not found' and nothing is written, whatever
\* entries follow.
C19_FirstMatchWithoutIdEnds ==
  \A i \in Searched : HasNoId(FirstEntryOf(i, TRUE)) => WritesNothing(i)

\* C19 amended: when the first entry, batters before pitchers, that has a
\* non-empty Name whose normalized form equals the normalized target has a
\* missing or empty ID, the answer is 200 'Player not found' and nothing is
\* written, whatever entries follow.
C19_FirstNamedMatchWithoutIdEnds ==
  \A i \in Searched : HasNoId(FirstEntryOf(i, FALSE)) => WritesNothing(i)

C19_Witness ==
  \E i \in Searched :
    /\ inv[i].batters = Arr(<<NoIdMuncey, Muncey>>)
    /\ inv[i].pitchers = Arr(<<MunceyBatter, Muncey>>)
    /\ FirstEntryOf(i, FALSE) = NoIdMuncey
    /\ WritesNothing(i)

====
